---- MODULE Spec2Model ----
(***************************************************************************)
(* A model of MoreFindings.py: a Flask application with five routes over   *)
(* an on-disk SQLite store.  Text is a sequence of pieces (each piece a    *)
(* run of characters that the SQL tokenizer and the shell never split), so *)
(* that string interpolation is sequence concatenation and the SQL engine  *)
(* tokenizes, parses and evaluates the very text the handler builds.       *)
(***************************************************************************)
EXTENDS Integers, Sequences, FiniteSets, TLC

(***************************************************************************)
(* Bounds of the model.                                                    *)
(***************************************************************************)
\* most pieces a generated username and password hold together
MaxLoginLen == 2
\* longest generated host value, in pieces
MaxHostLen == 2
\* longest generated file content, in pieces
MaxFileLen == 2
\* connections the process may hold open before the model stops leaking more
MaxOpenConns == 1

(***************************************************************************)
(* Text helpers.                                                           *)
(***************************************************************************)
RECURSIVE StringsUpTo(_, _)
StringsUpTo(alphabet, n) ==
    IF n = 0 THEN {<<>>}
    ELSE LET shorter == StringsUpTo(alphabet, n - 1)
         IN  shorter \cup {Append(s, c) : s \in shorter, c \in alphabet}

\* Python's None, as request.form.get returns it for an absent field
NoneValue == <<"<None>">>

\* mutant: an absent field written as the empty text
FormatNoneAsEmpty(value) == IF value = NoneValue THEN <<>> ELSE value

\* what an f-string writes for {value}: str(None) is the text None
Format(value) == IF value = NoneValue THEN <<"None">> ELSE value

IsPrefix(p, s) == Len(p) <= Len(s) /\ SubSeq(s, 1, Len(p)) = p

(***************************************************************************)
(* The SQL engine (sqlite3): tokenizer.                                    *)
(***************************************************************************)
Quote == "'"
SpacePieces == {" ", "\n"}
PunctPieces == {Quote, "--", "*", "=", ";"}
DigitPieces == {"0", "1", "2", "3", "4", "5", "6", "7", "8", "9"}
Keywords == {"SELECT", "FROM", "WHERE", "AND", "OR", "DELETE"}

IsWordPiece(c) == c \notin SpacePieces /\ c \notin PunctPieces

DigitVal(c) ==
    CASE c = "0" -> 0 [] c = "1" -> 1 [] c = "2" -> 2 [] c = "3" -> 3
      [] c = "4" -> 4 [] c = "5" -> 5 [] c = "6" -> 6 [] c = "7" -> 7
      [] c = "8" -> 8 [] OTHER -> 9

DigitPiece(d) ==
    CASE d = 0 -> "0" [] d = 1 -> "1" [] d = 2 -> "2" [] d = 3 -> "3"
      [] d = 4 -> "4" [] d = 5 -> "5" [] d = 6 -> "6" [] d = 7 -> "7"
      [] d = 8 -> "8" [] OTHER -> "9"

Tok(t, v) == [t |-> t, v |-> v]

\* a string literal from position i (just after its opening quote): two
\* adjacent quotes are one quote of the text, a single quote ends it
RECURSIVE ScanString(_, _, _)
ScanString(q, i, acc) ==
    IF i > Len(q) THEN [end |-> 0, text |-> acc]
    ELSE IF q[i] = Quote
         THEN IF i < Len(q) /\ q[i + 1] = Quote
              THEN ScanString(q, i + 2, Append(acc, Quote))
              ELSE [end |-> i, text |-> acc]
         ELSE ScanString(q, i + 1, Append(acc, q[i]))

\* mutant: a -- comment taken to end at the first blank
RECURSIVE SkipCommentToBlank(_, _)
SkipCommentToBlank(q, i) ==
    IF i > Len(q) THEN i
    ELSE IF q[i] \in SpacePieces THEN i + 1
    ELSE SkipCommentToBlank(q, i + 1)

\* a -- comment runs to the end of the line
RECURSIVE SkipComment(_, _)
SkipComment(q, i) ==
    IF i > Len(q) THEN i
    ELSE IF q[i] = "\n" THEN i + 1
    ELSE SkipComment(q, i + 1)

RECURSIVE WordEnd(_, _)
WordEnd(q, i) ==
    IF i > Len(q) \/ ~IsWordPiece(q[i]) THEN i - 1 ELSE WordEnd(q, i + 1)

ClassifyWord(w) ==
    IF Len(w) = 1 /\ w[1] \in Keywords THEN Tok("kw", w)
    ELSE IF \A k \in 1..Len(w) : w[k] \in DigitPieces THEN Tok("num", w)
    ELSE IF w[1] \in DigitPieces THEN Tok("illegal", w)
    ELSE Tok("id", w)

RECURSIVE TokenizeFrom(_, _, _)
TokenizeFrom(q, i, acc) ==
    IF i > Len(q) THEN acc
    ELSE IF q[i] \in SpacePieces THEN TokenizeFrom(q, i + 1, acc)
    ELSE IF q[i] = "--" THEN TokenizeFrom(q, SkipComment(q, i + 1), acc)
    ELSE IF q[i] = Quote THEN
        LET s == ScanString(q, i + 1, <<>>)
        IN  IF s.end = 0 THEN Append(acc, Tok("illegal", <<Quote>>))
            ELSE TokenizeFrom(q, s.end + 1, Append(acc, Tok("str", s.text)))
    ELSE IF q[i] = "*" THEN TokenizeFrom(q, i + 1, Append(acc, Tok("star", <<"*">>)))
    ELSE IF q[i] = "=" THEN TokenizeFrom(q, i + 1, Append(acc, Tok("eq", <<"=">>)))
    ELSE IF q[i] = ";" THEN TokenizeFrom(q, i + 1, Append(acc, Tok("semi", <<";">>)))
    ELSE LET e == WordEnd(q, i)
         IN  TokenizeFrom(q, e + 1, Append(acc, ClassifyWord(SubSeq(q, i, e))))

Tokenize(q) == TokenizeFrom(q, 1, <<>>)

(***************************************************************************)
(* The SQL engine: parser.  An expression is parsed to postfix order:      *)
(* = binds tighter than AND, AND tighter than OR, all left-associative.    *)
(***************************************************************************)
IsTok(ts, i, t) == i <= Len(ts) /\ ts[i].t = t
IsKw(ts, i, word) == IsTok(ts, i, "kw") /\ ts[i].v = <<word>>

Parsed(ok, i, out) == [ok |-> ok, i |-> i, out |-> out]

ParsePrimary(ts, i) ==
    IF IsTok(ts, i, "str") \/ IsTok(ts, i, "num") \/ IsTok(ts, i, "id")
    THEN Parsed(TRUE, i + 1, <<ts[i]>>)
    ELSE Parsed(FALSE, i, <<>>)

RECURSIVE ParseEqTail(_, _)
ParseEqTail(ts, left) ==
    IF ~left.ok \/ ~IsTok(ts, left.i, "eq") THEN left
    ELSE LET right == ParsePrimary(ts, left.i + 1)
         IN  IF ~right.ok THEN right
             ELSE ParseEqTail(ts, Parsed(TRUE, right.i,
                                         left.out \o right.out \o <<Tok("eq", <<"=">>)>>))

ParseEq(ts, i) == ParseEqTail(ts, ParsePrimary(ts, i))

RECURSIVE ParseAndTail(_, _)
ParseAndTail(ts, left) ==
    IF ~left.ok \/ ~IsKw(ts, left.i, "AND") THEN left
    ELSE LET right == ParseEq(ts, left.i + 1)
         IN  IF ~right.ok THEN right
             ELSE ParseAndTail(ts, Parsed(TRUE, right.i,
                                          left.out \o right.out \o <<Tok("kw", <<"AND">>)>>))

ParseAnd(ts, i) == ParseAndTail(ts, ParseEq(ts, i))

RECURSIVE ParseOrTail(_, _)
ParseOrTail(ts, left) ==
    IF ~left.ok \/ ~IsKw(ts, left.i, "OR") THEN left
    ELSE LET right == ParseAnd(ts, left.i + 1)
         IN  IF ~right.ok THEN right
             ELSE ParseOrTail(ts, Parsed(TRUE, right.i,
                                         left.out \o right.out \o <<Tok("kw", <<"OR">>)>>))

ParseExpr(ts, i) == ParseOrTail(ts, ParseAnd(ts, i))

Stmt(err, verb, table, where, tail) ==
    [err |-> err, verb |-> verb, table |-> table, where |-> where, tail |-> tail]

SyntaxError == Stmt("syntax error", "", <<>>, <<>>, <<>>)

\* the end of a statement whose WHERE clause is w: the end of the text or a
\* semicolon; tail is what follows the semicolon
EndStatement(ts, verb, table, w) ==
    IF ~w.ok THEN SyntaxError
    ELSE IF w.i > Len(ts) THEN Stmt("", verb, table, w.out, <<>>)
    ELSE IF ts[w.i].t = "semi"
         THEN Stmt("", verb, table, w.out, SubSeq(ts, w.i + 1, Len(ts)))
    ELSE SyntaxError

\* after the table name (at i - 1): an optional WHERE clause
ParseRest(ts, verb, i) ==
    EndStatement(ts, verb, ts[i - 1].v,
                 IF IsKw(ts, i, "WHERE") THEN ParseExpr(ts, i + 1)
                 ELSE Parsed(TRUE, i, <<>>))

\* sqlite3_prepare: compiles the first statement of the text
Prepare(ts) ==
    IF \E k \in 1..Len(ts) : ts[k].t = "illegal"
    THEN Stmt("unrecognized token", "", <<>>, <<>>, <<>>)
    ELSE IF IsKw(ts, 1, "SELECT") /\ IsTok(ts, 2, "star") /\ IsKw(ts, 3, "FROM")
            /\ IsTok(ts, 4, "id")
    THEN ParseRest(ts, "SELECT", 5)
    ELSE IF IsKw(ts, 1, "DELETE") /\ IsKw(ts, 2, "FROM") /\ IsTok(ts, 3, "id")
    THEN ParseRest(ts, "DELETE", 4)
    ELSE SyntaxError

(***************************************************************************)
(* The SQL engine: values, comparison and truth.                           *)
(***************************************************************************)
IntVal(n) == [k |-> "int", n |-> n, s |-> <<>>, aff |-> "NONE"]
TextVal(s) == [k |-> "text", n |-> 0, s |-> s, aff |-> "NONE"]

RECURSIVE NumVal(_)
NumVal(w) ==
    IF w = <<>> THEN 0
    ELSE 10 * NumVal(SubSeq(w, 1, Len(w) - 1)) + DigitVal(w[Len(w)])

RECURSIVE IntToText(_)
IntToText(n) ==
    IF n < 10 THEN <<DigitPiece(n)>>
    ELSE Append(IntToText(n \div 10), DigitPiece(n % 10))

RECURSIVE SkipSpaces(_)
SkipSpaces(s) ==
    IF s # <<>> /\ s[1] \in SpacePieces THEN SkipSpaces(Tail(s)) ELSE s

RECURSIVE DigitRun(_)
DigitRun(s) ==
    IF s # <<>> /\ s[1] \in DigitPieces THEN <<s[1]>> \o DigitRun(Tail(s)) ELSE <<>>

\* the number a text starts with (0 when it starts with none)
NumPrefix(s) == NumVal(DigitRun(SkipSpaces(s)))

\* a text that is a number and nothing else, spaces around it aside
IsNumeric(s) ==
    LET body == SkipSpaces(s)
        run == DigitRun(body)
    IN  run # <<>> /\ SkipSpaces(SubSeq(body, Len(run) + 1, Len(body))) = <<>>

ApplyNumeric(v) ==
    IF v.k = "text" /\ IsNumeric(v.s) THEN IntVal(NumPrefix(v.s)) ELSE v

ApplyText(v) == IF v.k = "int" THEN TextVal(IntToText(v.n)) ELSE v

\* the affinity rule of a comparison: a column's affinity converts the other
\* operand; two operands without affinity are compared as they are, and an
\* integer never equals a text
Coerce(v, other) ==
    IF other.aff = "INTEGER" /\ v.aff # "INTEGER" THEN ApplyNumeric(v)
    ELSE IF other.aff = "TEXT" /\ v.aff = "NONE" THEN ApplyText(v)
    ELSE v

SqlEquals(a, b) ==
    LET x == Coerce(a, b)
        y == Coerce(b, a)
    IN  x.k = y.k /\ x.n = y.n /\ x.s = y.s

Truthy(v) == IF v.k = "int" THEN v.n # 0 ELSE NumPrefix(v.s) # 0

BoolVal(b) == IntVal(IF b THEN 1 ELSE 0)

(***************************************************************************)
(* The store: the tables of the database file users.db.                    *)
(***************************************************************************)
UsersCols ==
    << [name |-> "id", type |-> "INTEGER"],
       [name |-> "username", type |-> "TEXT"],
       [name |-> "password", type |-> "TEXT"] >>

Row(id, username, password) ==
    [id |-> id, username |-> username, password |-> password]

Table(name, cols, rows) == [name |-> name, cols |-> cols, rows |-> rows]

TablesNamed(store, name) == {t \in store : t.name = name}

HasTable(store, name) == TablesNamed(store, name) # {}

TheTable(store, name) == CHOOSE t \in store : t.name = name

UsersRows(store) ==
    IF HasTable(store, "users") THEN TheTable(store, "users").rows ELSE {}

ColNames(table) == {table.cols[k].name : k \in 1..Len(table.cols)}

ColumnValue(table, row, name) ==
    LET c == CHOOSE k \in 1..Len(table.cols) : table.cols[k].name = name
    IN  IF table.cols[c].type = "INTEGER"
        THEN [IntVal(row[name]) EXCEPT !.aff = "INTEGER"]
        ELSE [TextVal(row[name]) EXCEPT !.aff = "TEXT"]

Push(stack, v) == Append(stack, v)
Pop2(stack) == SubSeq(stack, 1, Len(stack) - 2)

\* the value of a postfix expression on one row
RECURSIVE EvalFrom(_, _, _, _, _)
EvalFrom(expr, i, stack, table, row) ==
    IF i > Len(expr) THEN stack[Len(stack)]
    ELSE LET t == expr[i]
             a == stack[Len(stack) - 1]
             b == stack[Len(stack)]
         IN  IF t.t = "str" THEN EvalFrom(expr, i + 1, Push(stack, TextVal(t.v)), table, row)
             ELSE IF t.t = "num"
                  THEN EvalFrom(expr, i + 1, Push(stack, IntVal(NumVal(t.v))), table, row)
             ELSE IF t.t = "id"
                  THEN EvalFrom(expr, i + 1,
                                Push(stack, ColumnValue(table, row, t.v[1])), table, row)
             ELSE IF t.t = "eq"
                  THEN EvalFrom(expr, i + 1,
                                Push(Pop2(stack), BoolVal(SqlEquals(a, b))), table, row)
             ELSE IF t.v = <<"AND">>
                  THEN EvalFrom(expr, i + 1,
                                Push(Pop2(stack), BoolVal(Truthy(a) /\ Truthy(b))), table, row)
             ELSE EvalFrom(expr, i + 1,
                           Push(Pop2(stack), BoolVal(Truthy(a) \/ Truthy(b))), table, row)

Matches(table, where, row) ==
    where = <<>> \/ Truthy(EvalFrom(where, 1, <<>>, table, row))

Cursor(err, rows, store, dirty) ==
    [err |-> err, rows |-> rows, store |-> store, dirty |-> dirty]

\* one compiled statement run on the store: names are resolved first, a
\* SELECT yields the matching rows, a DELETE removes them inside a
\* transaction the connection has yet to commit
Step(store, stmt) ==
    IF Len(stmt.table) # 1 \/ ~HasTable(store, stmt.table[1])
    THEN Cursor("no such table", {}, store, FALSE)
    ELSE LET table == TheTable(store, stmt.table[1])
             hit == {r \in table.rows : Matches(table, stmt.where, r)}
         IN  IF \E k \in 1..Len(stmt.where) :
                    /\ stmt.where[k].t = "id"
                    /\ (Len(stmt.where[k].v) # 1 \/ stmt.where[k].v[1] \notin ColNames(table))
             THEN Cursor("no such column", {}, store, FALSE)
             ELSE IF stmt.verb = "SELECT" THEN Cursor("", hit, store, FALSE)
             ELSE Cursor("", {},
                         (store \ {table}) \cup {[table EXCEPT !.rows = table.rows \ hit]},
                         TRUE)

\* mutant: the text run the way executescript runs it, every statement of
\* it, each committed as it runs
RECURSIVE RunScript(_, _), RunNext(_, _)
RunNext(stmt, cur) ==
    IF cur.err # "" \/ stmt.tail = <<>> THEN [cur EXCEPT !.dirty = FALSE]
    ELSE RunScript(cur.store, Prepare(stmt.tail))

RunScript(store, stmt) ==
    IF stmt.err # "" THEN Cursor(stmt.err, {}, store, FALSE)
    ELSE RunNext(stmt, Step(store, stmt))

\* a compiled text run the way cursor.execute runs it: text that holds
\* anything after its first statement is refused
RunOne(store, stmt) ==
    IF stmt.err # "" THEN Cursor(stmt.err, {}, store, FALSE)
    ELSE IF stmt.tail # <<>>
         THEN Cursor("You can only execute one statement at a time", {}, store, FALSE)
    ELSE Step(store, stmt)

\* cursor.execute(sql)
Execute(store, sql) == RunOne(store, Prepare(Tokenize(sql)))

\* cursor.fetchone: the first row in rowid order, or none
FetchOne(rows) ==
    IF rows = {} THEN <<>>
    ELSE <<CHOOSE r \in rows : \A o \in rows : r.id <= o.id>>

\* connection.close without a commit rolls an open transaction back
CloseConn(before, cur) == IF cur.dirty THEN before ELSE cur.store

(***************************************************************************)
(* Python exceptions and what a handler hands back to Flask.               *)
(***************************************************************************)
\* the classes below Exception; SystemExit derives from BaseException only
ExceptionClasses ==
    {"OperationalError", "ProgrammingError", "binascii.Error", "EOFError",
     "TypeError", "FileNotFoundError", "PermissionError", "IsADirectoryError",
     "UnicodeDecodeError"}

\* mutant: the clause "except BaseException as e"
CatchesBaseException(cls) == TRUE

\* the clause "except Exception as e"
Catches(cls) == cls \in ExceptionClasses

Returned(status, ctype, key, text) ==
    [raised |-> FALSE, exc |-> "", status |-> status, ctype |-> ctype,
     key |-> key, text |-> text]

Raised(cls, text) ==
    [raised |-> TRUE, exc |-> cls, status |-> 0, ctype |-> "", key |-> "",
     text |-> text]

\* mutant: the status after jsonify(...) dropped, so that Flask answers 200
JsonifyWithoutStatus(key, text, status) == Returned(200, "json", key, text)

\* jsonify({key: text}) with a status (200 when the handler names none)
Jsonify(key, text, status) == Returned(status, "json", key, text)

Result(out, store, conn) == [out |-> out, store |-> store, conn |-> conn]

(***************************************************************************)
(* init_db and the handlers.                                               *)
(***************************************************************************)
\* CREATE TABLE [IF NOT EXISTS] name (cols)
CreateTable(store, name, cols, ifNotExists) ==
    IF HasTable(store, name)
    THEN IF ifNotExists THEN [err |-> "", store |-> store]
         ELSE [err |-> "table already exists", store |-> store]
    ELSE [err |-> "", store |-> store \cup {Table(name, cols, {})}]

\* mutant: CREATE TABLE without IF NOT EXISTS
InitDbPlainCreate(store) ==
    LET made == CreateTable(store, "users", UsersCols, FALSE)
    IN  IF made.err # "" THEN Result(Raised("OperationalError", <<made.err>>), store, "open")
        ELSE Result(Returned(0, "", "", <<>>), made.store, "closed")

InitDb(store) ==
    LET made == CreateTable(store, "users", UsersCols, TRUE)
    IN  IF made.err # "" THEN Result(Raised("OperationalError", <<made.err>>), store, "open")
        ELSE Result(Returned(0, "", "", <<>>), made.store, "closed")

Home == Returned(200, "text", "", <<"Vulnerable Flask App - OWASP Demo">>)

RECURSIVE EscapeQuotes(_)
EscapeQuotes(text) ==
    IF text = <<>> THEN <<>>
    ELSE IF text[1] = Quote THEN <<Quote, Quote>> \o EscapeQuotes(Tail(text))
    ELSE <<text[1]>> \o EscapeQuotes(Tail(text))

\* mutant: the query built with the quotes of both values doubled
LoginQueryEscaped(username, password) ==
    <<"SELECT", " ", "*", " ", "FROM", " ", "users", " ", "WHERE", " ",
      "username", "=", Quote>> \o EscapeQuotes(Format(username))
      \o <<Quote, " ", "AND", " ", "password", "=", Quote>>
      \o EscapeQuotes(Format(password)) \o <<Quote>>

LoginQuery(username, password) ==
    <<"SELECT", " ", "*", " ", "FROM", " ", "users", " ", "WHERE", " ",
      "username", "=", Quote>> \o Format(username)
      \o <<Quote, " ", "AND", " ", "password", "=", Quote>> \o Format(password)
      \o <<Quote>>

SqlErrorClass(err) ==
    IF err = "You can only execute one statement at a time"
    THEN "ProgrammingError" ELSE "OperationalError"

\* mutant: execute wrapped in a try block that answers 401 on an error
LoginAnswerCatching(store, cur) ==
    IF cur.err = "" /\ FetchOne(cur.rows) # <<>>
    THEN Result(Jsonify("message", <<"Login successful">>, 200),
                CloseConn(store, cur), "closed")
    ELSE Result(Jsonify("message", <<"Invalid credentials">>, 401),
                CloseConn(store, cur), "closed")

\* login from the cursor on: an error of execute leaves the handler before
\* conn.close(); otherwise fetchone, close and the answer
LoginAnswer(store, cur) ==
    IF cur.err # ""
    THEN Result(Raised(SqlErrorClass(cur.err), <<cur.err>>), store, "open")
    ELSE IF FetchOne(cur.rows) # <<>>
    THEN Result(Jsonify("message", <<"Login successful">>, 200),
                CloseConn(store, cur), "closed")
    ELSE Result(Jsonify("message", <<"Invalid credentials">>, 401),
                CloseConn(store, cur), "closed")

Login(store, username, password) ==
    LoginAnswer(store, Execute(store, LoginQuery(username, password)))

\* the runs of a line between separators, empty runs kept
RECURSIVE SplitFrom(_, _, _, _)
SplitFrom(line, seps, i, acc) ==
    IF i > Len(line) THEN acc
    ELSE IF line[i] \in seps THEN SplitFrom(line, seps, i + 1, Append(acc, <<>>))
    ELSE SplitFrom(line, seps, i + 1,
                   [acc EXCEPT ![Len(acc)] = Append(acc[Len(acc)], line[i])])

Split(line, seps) == SplitFrom(line, seps, 1, << <<>> >>)

Words(cmd) == SelectSeq(Split(cmd, {" "}), LAMBDA w : w # <<>>)

\* one simple command: ping writes a line about its target, rm removes the
\* files it is given, anything else is not found
RunCommand(state, cmd) ==
    LET words == Words(cmd)
        args == {words[k] : k \in 2..Len(words)}
    IN  IF words = <<>> THEN state
        ELSE IF words[1] = <<"ping">>
        THEN IF Len(words) >= 4
             THEN [state EXCEPT !.stdout = @ \o <<"PING ">> \o words[4] \o <<"\n">>]
             ELSE state
        ELSE IF words[1] = <<"rm">> /\ <<"users.db">> \in args
        THEN [state EXCEPT !.store = {}]
        ELSE state

RECURSIVE RunCommands(_, _, _)
RunCommands(state, cmds, i) ==
    IF i > Len(cmds) THEN state
    ELSE RunCommands(RunCommand(state, cmds[i]), cmds, i + 1)

\* sh -c line and the read of its standard output: the commands between
\* semicolons run in turn; a line with an empty command before a semicolon
\* is a syntax error and runs nothing
Shell(store, line) ==
    LET cmds == Split(line, {";"})
        start == [stdout |-> <<>>, store |-> store]
    IN  IF \E k \in 1..(Len(cmds) - 1) : Words(cmds[k]) = <<>> THEN start
        ELSE RunCommands(start, cmds, 1)

Ping(store, hostArg) ==
    LET host == IF hostArg = NoneValue THEN <<"127.0.0.1">> ELSE hostArg
        sh == Shell(store, <<"ping", " ", "-c", " ", "1", " ">> \o host)
    IN  Result(Returned(200, "html", "", <<"<pre>">> \o sh.stdout \o <<"</pre>">>),
               sh.store, "none")

\* base64.b64decode: the body decodes or its padding is wrong
B64Decode(body) ==
    IF body.b64 = "ok" THEN [exc |-> "", text |-> <<>>, bytes |-> body.op]
    ELSE [exc |-> "binascii.Error", text |-> <<"Incorrect padding">>, bytes |-> ""]

Loaded(exc, text, obj, strRaises, store) ==
    [exc |-> exc, text |-> text, obj |-> obj, strRaises |-> strRaises,
     store |-> store]

\* pickle.loads: what reconstruction of the decoded bytes does
PickleLoads(store, op) ==
    CASE op = "data" -> Loaded("", <<>>, <<"hello">>, FALSE, store)
      [] op = "truncated" -> Loaded("EOFError", <<"Ran out of input">>, <<>>, FALSE, store)
      [] op = "remove_db" -> Loaded("", <<>>, <<"None">>, FALSE, {})
      [] op = "exit" -> Loaded("SystemExit", <<"1">>, <<>>, FALSE, store)
      [] OTHER -> Loaded("", <<>>, <<>>, TRUE, store)

\* the try block of deserialize: its first exception, if any
Deserialize(store, body) ==
    LET dec == B64Decode(body)
        obj == PickleLoads(store, dec.bytes)
        exc == IF dec.exc # "" THEN dec.exc
               ELSE IF obj.exc # "" THEN obj.exc
               ELSE IF obj.strRaises THEN "TypeError" ELSE ""
        text == IF dec.exc # "" THEN dec.text
                ELSE IF obj.exc # "" THEN obj.text
                ELSE <<"__str__ returned non-string">>
        after == IF dec.exc # "" THEN store ELSE obj.store
    IN  IF exc = "" THEN Result(Jsonify("result", obj.obj, 200), after, "none")
        ELSE IF Catches(exc) THEN Result(Jsonify("error", text, 400), after, "none")
        ELSE Result(Raised(exc, text), after, "none")

File(kind, content) == [kind |-> kind, content |-> content]

\* open(filename, "r") on what the path holds
OpenError(path, file) ==
    CASE file.kind = "missing" ->
            [exc |-> "FileNotFoundError",
             text |-> <<"[Errno 2] No such file or directory: ">> \o path]
      [] file.kind = "denied" ->
            [exc |-> "PermissionError",
             text |-> <<"[Errno 13] Permission denied: ">> \o path]
      [] file.kind = "dir" ->
            [exc |-> "IsADirectoryError",
             text |-> <<"[Errno 21] Is a directory: ">> \o path]
      [] OTHER -> [exc |-> "", text |-> <<>>]

\* f.read() in text mode: a carriage return, alone or before a line feed,
\* reads as one line feed
RECURSIVE TextRead(_)
TextRead(content) ==
    IF content = <<>> THEN <<>>
    ELSE IF content[1] = "\r"
         THEN IF Len(content) >= 2 /\ content[2] = "\n"
              THEN <<"\n">> \o TextRead(SubSeq(content, 3, Len(content)))
              ELSE <<"\n">> \o TextRead(Tail(content))
         ELSE <<content[1]>> \o TextRead(Tail(content))

\* mutant: the error of read_file answered with status 500
ReadFileErrorStatus(fileArg, file) ==
    LET filename == IF fileArg = NoneValue THEN <<"/etc/passwd">> ELSE fileArg
        opened == OpenError(filename, file)
    IN  IF opened.exc = "" /\ file.kind # "binary"
        THEN Returned(200, "html", "", <<"<pre>">> \o TextRead(file.content) \o <<"</pre>">>)
        ELSE Jsonify("error", opened.text, 500)

ReadFile(fileArg, file) ==
    LET filename == IF fileArg = NoneValue THEN <<"/etc/passwd">> ELSE fileArg
        opened == OpenError(filename, file)
        exc == IF opened.exc # "" THEN opened.exc
               ELSE IF file.kind = "binary" THEN "UnicodeDecodeError" ELSE ""
        text == IF opened.exc # "" THEN opened.text
                ELSE <<"'utf-8' codec can't decode byte">>
    IN  IF exc = ""
        THEN Returned(200, "html", "", <<"<pre>">> \o TextRead(file.content) \o <<"</pre>">>)
        ELSE IF Catches(exc) THEN Jsonify("error", text, 200)
        ELSE Raised(exc, text)

\* Flask around a handler: what it returns is the response; an Exception it
\* raises becomes the debugger's 500 page; anything else leaves the
\* application and no response is written
Response(status, ctype, key, text, by) ==
    [status |-> status, ctype |-> ctype, key |-> key, text |-> text, by |-> by]

Serve(out) ==
    IF ~out.raised
    THEN Response(out.status, out.ctype, out.key, out.text, "handler")
    ELSE IF out.exc \in ExceptionClasses
    THEN Response(500, "html", "", <<out.exc, ": ">> \o out.text, "framework")
    ELSE Response(0, "", "", <<>>, "none")

(***************************************************************************)
(* The inputs the model draws: short texts over small alphabets, and the   *)
(* crafted values the classic attacks use.                                 *)
(***************************************************************************)
LoginAlphabet == {"admin", "1", Quote, "--", "\n"}

\* admin' --
CommentBypass == <<"admin", Quote, " ", "--">>
\* ' OR '1'='1
TautologyBypass == <<Quote, " ", "OR", " ", Quote, "1", Quote, "=", Quote, "1">>
\* ';DELETE FROM users--
StackedDelete == <<Quote, ";", "DELETE", " ", "FROM", " ", "users", "--">>

LoginTexts == StringsUpTo(LoginAlphabet, MaxLoginLen)

CraftedUsernames == {NoneValue, CommentBypass, StackedDelete}

CraftedPasswords == {NoneValue, TautologyBypass}

\* the (username, password) pairs posted to /login
LoginForms ==
    {f \in LoginTexts \X LoginTexts : Len(f[1]) + Len(f[2]) <= MaxLoginLen}
        \cup (CraftedUsernames \X (LoginTexts \cup CraftedPasswords))
        \cup (LoginTexts \X CraftedPasswords)

HostAlphabet == {"127.0.0.1", ";", " ", "rm", "users.db"}

\* 127.0.0.1;rm users.db
CommandInjection == <<"127.0.0.1", ";", "rm", " ", "users.db">>

Hosts == StringsUpTo(HostAlphabet, MaxHostLen) \cup {NoneValue, CommandInjection}

Bodies ==
    [b64 : {"ok"}, op : {"data", "truncated", "remove_db", "exit", "bad_str"}]
        \cup {[b64 |-> "bad", op |-> ""]}

NoBody == [b64 |-> "", op |-> ""]

Paths == {NoneValue, <<>>, <<"/etc/passwd">>, <<"users.db">>, <<"/root">>}

FileAlphabet == {"a", "\r", "\n"}

Files ==
    {File(k, <<>>) : k \in {"missing", "denied", "dir", "binary"}}
        \cup {File("text", c) : c \in StringsUpTo(FileAlphabet, MaxFileLen)}

NoFile == File("", <<>>)

Request(route, username, password, host, body, file) ==
    [route |-> route, username |-> username, password |-> password,
     host |-> host, body |-> body, file |-> file]

NoRequest == Request("", NoneValue, NoneValue, NoneValue, NoBody, NoneValue)

NoResponse == Response(0, "", "", <<>>, "")

CandidateRows ==
    {Row(1, <<"admin">>, <<"1">>), Row(2, <<"admin", "1">>, <<"--">>),
     Row(3, <<"None">>, <<"None">>)}

\* what users.db may hold when the process starts
DiskStates ==
    {{}} \cup {{Table("users", UsersCols, rows)} : rows \in SUBSET CandidateRows}

(***************************************************************************)
(* The state machine: the process starts (running init_db when it is the   *)
(* main module), then requests arrive, are handled and answered one at a   *)
(* time.                                                                   *)
(***************************************************************************)
VARIABLES
    phase,      \* "stopped" or "running"
    db,         \* the tables of users.db
    openConns,  \* connections to the store the process holds open
    pc,         \* "idle", "pending" (a request waits) or "done" (handled)
    req,        \* the request being served
    env,        \* what the path of a /readfile request holds
    resp,       \* the response to req
    conn,       \* the connection the last invocation opened: "none", "open", "closed"
    boot        \* the last startup: main module or not, the store before and after, its error

vars == <<phase, db, openConns, pc, req, env, resp, conn, boot>>

Boot(main, before, after, err) ==
    [main |-> main, before |-> before, after |-> after, err |-> err]

Init ==
    /\ phase = "stopped"
    /\ db \in DiskStates
    /\ openConns = 0
    /\ pc = "idle"
    /\ req = NoRequest
    /\ env = NoFile
    /\ resp = NoResponse
    /\ conn = "none"
    /\ boot = Boot(FALSE, db, db, "")

\* python MoreFindings.py: init_db, then app.run
StartMain ==
    /\ phase = "stopped"
    /\ LET r == InitDb(db)
       IN  /\ db' = r.store
           /\ conn' = r.conn
           /\ boot' = Boot(TRUE, db, r.store, IF r.out.raised THEN r.out.text[1] ELSE "")
           /\ phase' = IF r.out.raised THEN "stopped" ELSE "running"
           /\ openConns' = 0
    /\ UNCHANGED <<pc, req, env, resp>>

\* the module imported by a WSGI server: the routes are served, init_db is not called
StartImported ==
    /\ phase = "stopped"
    /\ phase' = "running"
    /\ conn' = "none"
    /\ boot' = Boot(FALSE, db, db, "")
    /\ UNCHANGED <<db, openConns, pc, req, env, resp>>

Stop ==
    /\ phase = "running"
    /\ pc = "idle"
    /\ phase' = "stopped"
    /\ openConns' = 0
    /\ UNCHANGED <<db, pc, req, env, resp, conn, boot>>

\* the interpreter finalizes a connection nothing refers to any more
Collect ==
    /\ pc = "idle"
    /\ openConns > 0
    /\ openConns' = openConns - 1
    /\ UNCHANGED <<phase, db, pc, req, env, resp, conn, boot>>

Receive(r, file) ==
    /\ phase = "running"
    /\ pc = "idle"
    /\ openConns < MaxOpenConns
    /\ req' = r
    /\ env' = file
    /\ resp' = NoResponse
    /\ conn' = "none"
    /\ pc' = "pending"
    /\ UNCHANGED <<phase, db, openConns, boot>>

ReceiveHome == Receive([NoRequest EXCEPT !.route = "/"], NoFile)

ReceiveLogin ==
    \E f \in LoginForms :
        Receive([NoRequest EXCEPT !.route = "/login", !.username = f[1],
                                  !.password = f[2]], NoFile)

ReceivePing ==
    \E h \in Hosts : Receive([NoRequest EXCEPT !.route = "/ping", !.host = h], NoFile)

ReceiveDeserialize ==
    \E b \in Bodies : Receive([NoRequest EXCEPT !.route = "/deserialize", !.body = b], NoFile)

ReceiveReadFile ==
    \E f \in Paths, file \in Files :
        /\ f = <<>> => file.kind = "missing"
        /\ Receive([NoRequest EXCEPT !.route = "/readfile", !.file = f], file)

Finish(r) ==
    /\ resp' = Serve(r.out)
    /\ db' = r.store
    /\ conn' = r.conn
    /\ openConns' = IF r.conn = "open" THEN openConns + 1 ELSE openConns
    /\ pc' = "done"
    /\ UNCHANGED <<phase, req, env, boot>>

HandleHome ==
    /\ pc = "pending" /\ req.route = "/"
    /\ Finish(Result(Home, db, "none"))

HandleLogin ==
    /\ pc = "pending" /\ req.route = "/login"
    /\ Finish(Login(db, req.username, req.password))

HandlePing ==
    /\ pc = "pending" /\ req.route = "/ping"
    /\ Finish(Ping(db, req.host))

HandleDeserialize ==
    /\ pc = "pending" /\ req.route = "/deserialize"
    /\ Finish(Deserialize(db, req.body))

HandleReadFile ==
    /\ pc = "pending" /\ req.route = "/readfile"
    /\ Finish(Result(ReadFile(req.file, env), db, "none"))

\* the response has gone out; the server waits for the next request
Deliver ==
    /\ pc = "done"
    /\ pc' = "idle"
    /\ req' = NoRequest
    /\ env' = NoFile
    /\ resp' = NoResponse
    /\ conn' = "none"
    /\ UNCHANGED <<phase, db, openConns, boot>>

Next ==
    \/ StartMain
    \/ StartImported
    \/ Stop
    \/ Collect
    \/ ReceiveHome
    \/ ReceiveLogin
    \/ ReceivePing
    \/ ReceiveDeserialize
    \/ ReceiveReadFile
    \/ HandleHome
    \/ HandleLogin
    \/ HandlePing
    \/ HandleDeserialize
    \/ HandleReadFile
    \/ Deliver

Spec == Init /\ [][Next]_vars

(***************************************************************************)
(* Properties.                                                             *)
(***************************************************************************)
Done(route) == pc = "done" /\ req.route = route

HasPiece(text, c) == \E k \in 1..Len(text) : text[k] = c

LoginSuccess == Response(200, "json", "message", <<"Login successful">>, "handler")

LoginFailure == Response(401, "json", "message", <<"Invalid credentials">>, "handler")

\* what execute finds for the request being served
Lookup == Execute(db, LoginQuery(req.username, req.password))

\* the text a form field stands for: its value, or None when it is absent
Submitted(field) == IF field = NoneValue THEN <<"None">> ELSE field

\* a stored row holding exactly the submitted values
ExactRow ==
    \E r \in UsersRows(db) :
        r.username = Submitted(req.username) /\ r.password = Submitted(req.password)

QuoteFree == ~HasPiece(Format(req.username), Quote) /\ ~HasPiece(Format(req.password), Quote)

\* C1 as stated: every /login request is answered 200 "Login successful"
\* when the lookup returns a row and 401 "Invalid credentials" otherwise.
C1_LoginAlways200Or401 ==
    Done("/login") =>
        IF Lookup.rows # {} THEN resp = LoginSuccess ELSE resp = LoginFailure

\* C1 amended: a /login request whose query executes is answered 200
\* "Login successful" when the lookup returns a row and 401 "Invalid
\* credentials" when it returns none; the handler itself produces no other
\* response, and a request whose query fails gets Flask's 500 instead.
C1_LoginResponse ==
    Done("/login") =>
        /\ (Lookup.err = "" /\ Lookup.rows # {}) => resp = LoginSuccess
        /\ (Lookup.err = "" /\ Lookup.rows = {}) => resp = LoginFailure
        /\ Lookup.err # "" => (resp.by = "framework" /\ resp.status = 500)
        /\ resp.by = "handler" => resp \in {LoginSuccess, LoginFailure}

C1_Witness == Done("/login") /\ resp = LoginFailure /\ UsersRows(db) # {}

\* C2 as stated: username admin' -- with any password is answered 200 when
\* some stored row's username starts with admin.
C2_PrefixBypass ==
    (Done("/login") /\ req.username = CommentBypass
        /\ \E r \in UsersRows(db) : IsPrefix(<<"admin">>, r.username))
    => resp = LoginSuccess

\* C2 amended: username admin' -- with any password that holds no line break
\* is answered 200 when some stored row's username is exactly admin, whatever
\* the stored passwords are; rows whose username only starts with admin do
\* not count: when the table holds no row named admin the answer is 401.
C2_CommentBypass ==
    (Done("/login") /\ req.username = CommentBypass
        /\ ~HasPiece(Format(req.password), "\n"))
    => /\ (\E r \in UsersRows(db) : r.username = <<"admin">>) => resp = LoginSuccess
       /\ (HasTable(db, "users") /\ \A r \in UsersRows(db) : r.username # <<"admin">>)
              => resp = LoginFailure

C2_Witness ==
    /\ Done("/login") /\ req.username = CommentBypass /\ resp = LoginSuccess
    /\ \A r \in UsersRows(db) : r.password # Format(req.password)

\* the exception the body of a /deserialize request raises inside the try
\* block ("" when it raises none)
BodyException(body) ==
    IF body.b64 # "ok" THEN "binascii.Error"
    ELSE IF body.op = "truncated" THEN "EOFError"
    ELSE IF body.op = "exit" THEN "SystemExit"
    ELSE IF body.op = "bad_str" THEN "TypeError"
    ELSE ""

\* C3 as stated: whatever exception decoding, reconstruction or str raises,
\* /deserialize answers 400 {error: text}; otherwise 200 {result: text}; no
\* exception leaves the handler.
C3_NoExceptionEscapes ==
    Done("/deserialize") =>
        IF BodyException(req.body) # ""
        THEN resp.by = "handler" /\ resp.status = 400 /\ resp.key = "error"
        ELSE resp.by = "handler" /\ resp.status = 200 /\ resp.key = "result"

\* C3 amended: an exception that derives from Exception is answered 400
\* {error: text}, no exception is answered 200 {result: text}, and an
\* exception outside Exception (SystemExit raised by code the payload runs)
\* leaves the handler, so that no response of the handler is written.
C3_ExceptionsAnswered400 ==
    Done("/deserialize") =>
        LET exc == BodyException(req.body)
        IN  /\ exc = "" =>
                (resp.by = "handler" /\ resp.status = 200 /\ resp.ctype = "json"
                    /\ resp.key = "result")
            /\ exc \in ExceptionClasses =>
                (resp.by = "handler" /\ resp.status = 400 /\ resp.ctype = "json"
                    /\ resp.key = "error" /\ resp.text # <<>>)
            /\ (exc # "" /\ exc \notin ExceptionClasses) => resp.by = "none"

C3_Witness ==
    Done("/deserialize") /\ req.body.op = "truncated" /\ resp.status = 400

C5_InitDbIdempotent ==
    boot.main =>
        /\ boot.err = ""
        /\ Cardinality(TablesNamed(boot.after, "users")) = 1
        /\ TheTable(boot.after, "users").cols = UsersCols
        /\ UsersRows(boot.after) = UsersRows(boot.before)
        /\ HasTable(boot.before, "users") => boot.after = boot.before
        /\ ~InitDb(boot.after).out.raised
        /\ InitDb(boot.after).store = boot.after

C5_Witness ==
    /\ phase = "running" /\ boot.main
    /\ HasTable(boot.before, "users") /\ UsersRows(boot.before) # {}

\* C6 as stated: while the process serves requests, the rows of the users
\* table are those it had after startup.
C6_RowsNeverChange ==
    phase = "running" => UsersRows(db) = UsersRows(boot.after)

\* a request whose host holds a shell metacharacter (the command separator)
\* or whose payload runs code as it is reconstructed
RunsInjectedCode(r) ==
    \/ r.route = "/ping" /\ r.host # NoneValue /\ HasPiece(r.host, ";")
    \/ r.route = "/deserialize" /\ r.body.op \in {"remove_db", "exit"}

\* C6 amended: no step of the running process changes the store, except the
\* handling of a /ping request whose host holds a shell metacharacter or of a
\* /deserialize request whose payload runs code; /, /login and /readfile
\* never change it, and the credential check reads the table only.
C6_OnlyInjectedCodeChangesStore ==
    [][(phase = "running" /\ phase' = "running"
            /\ ~(pc = "pending" /\ RunsInjectedCode(req)))
        => db' = db]_vars

C6_Witness ==
    /\ Done("/login") /\ req.username = StackedDelete
    /\ resp.status = 500 /\ UsersRows(db) # {}

\* C7: a /login request whose query fails to execute ends in Flask's 500: it
\* is answered neither 401 nor 200 and by no handler; a missing users table
\* and a username that is a lone quote (with a password that holds neither a
\* quote nor a comment mark) are such failures.
C7_QueryErrorIs500 ==
    Done("/login") =>
        /\ Lookup.err # "" =>
               (resp.status = 500 /\ resp.by = "framework" /\ resp.key = "")
        /\ ~HasTable(db, "users") => resp.status = 500
        /\ (req.username = <<Quote>> /\ ~HasPiece(Format(req.password), Quote)
                /\ ~HasPiece(Format(req.password), "--")) => resp.status = 500

C7_Witness ==
    /\ Done("/login") /\ req.username = <<Quote>> /\ HasTable(db, "users")
    /\ resp.status = 500 /\ resp.by = "framework"

\* C8 as stated: the connection an invocation opened is closed when the
\* invocation has ended, whatever the outcome of /login, and after init_db.
C8_ConnectionClosed ==
    /\ Done("/login") => conn = "closed"
    /\ (pc = "idle" /\ boot.main /\ conn # "none") => conn = "closed"

\* the lookup the handler means to run: both columns compared with the
\* submitted values
IntendedLookup ==
    Stmt("", "SELECT", <<"users">>,
         << Tok("id", <<"username">>), Tok("str", Format(req.username)),
            Tok("eq", <<"=">>),
            Tok("id", <<"password">>), Tok("str", Format(req.password)),
            Tok("eq", <<"=">>), Tok("kw", <<"AND">>) >>,
         <<>>)

\* C9: when the username or the password holds a quote, the statement the
\* store compiles is never the intended lookup; and the password ' OR '1'='1
\* with a quote-free username is answered 200 whenever the table holds a row.
C9_QuoteChangesTheQuery ==
    Done("/login") =>
        /\ ~QuoteFree => Prepare(Tokenize(LoginQuery(req.username, req.password)))
                            # IntendedLookup
        /\ (req.password = TautologyBypass /\ ~HasPiece(Format(req.username), Quote)
                /\ UsersRows(db) # {}) => resp = LoginSuccess

C9_Witness ==
    /\ Done("/login") /\ HasPiece(Format(req.password), Quote)
    /\ resp = LoginSuccess
    /\ \A r \in UsersRows(db) :
           r.password # Format(req.password) /\ r.username # Format(req.username)

\* C10 as stated: quote-free input is answered 200 exactly when a stored row
\* holds both submitted values (an absent field counting as the text None),
\* and 401 otherwise.
C10_ExactMatch ==
    (Done("/login") /\ QuoteFree) =>
        IF ExactRow THEN resp = LoginSuccess ELSE resp = LoginFailure

\* C10 amended: provided the users table exists, quote-free input is answered
\* 200 exactly when a stored row holds both submitted values (an absent field
\* counting as the text None), and 401 otherwise; without the table the
\* request ends in the 500 of C7.
C10_ExactMatchWhenTableExists ==
    (Done("/login") /\ QuoteFree) =>
        IF HasTable(db, "users")
        THEN IF ExactRow THEN resp = LoginSuccess ELSE resp = LoginFailure
        ELSE resp.status = 500

C10_Witness ==
    /\ Done("/login") /\ req.username = NoneValue /\ req.password = NoneValue
    /\ resp = LoginSuccess

====
